---- MODULE Spec2Model ----
(***************************************************************************)
(* Model of app/src/main.py: a FastAPI service with a memoized Redis       *)
(* client, a memoized psycopg2 connection, a startup hook that creates the *)
(* users table, and one handler per endpoint.                              *)
(*                                                                         *)
(* Scheduling.  Every handler is an `async def` whose body holds no await: *)
(* the event loop runs one handler body to completion before it starts the *)
(* next, so handlers never interleave with each other.  Each call to a     *)
(* store is a separate network exchange, so the stores (going down, coming *)
(* back, another client writing the counter key) move between the store    *)
(* calls of a handler.  The model therefore has one request in progress at *)
(* a time, one action per store call of each handler, and store actions    *)
(* that interleave freely with them.                                       *)
(***************************************************************************)
EXTENDS Integers, Sequences, FiniteSets, TLC

\* ------------------------------------------------------------------ bounds
MaxRequests == 3
MaxFlips == 2
MaxExtWrites == 1

\* ---------------------------------------------------------------- constants
\* The absent handle: `redis_client = None`, `postgres_conn = None`.
None == 0

Emails == {"a", "b"}

\* Values another client of the cache may leave in the key api_counter.
ExternalValues == {<<"x">>, <<"9">>}

VARIABLES
    redisUp,        \* the cache store accepts connections and commands
    api_counter,    \* the key "api_counter": [present, val], val a digit string
    pgUp,           \* the relational store accepts connections
    tableExists,    \* the users table exists (committed)
    users,          \* committed rows of users, in insertion order (emails)
    redis_client,   \* module global: None or the client object's id
    postgres_conn,  \* module global: [id, closed, broken, txn, pending]
    connSerial,     \* number of psycopg2 connection objects created so far
    openConns,      \* ids of connection objects whose .closed is 0
    started,        \* startup_event has run
    initFailed,     \* startup_event did not commit CREATE TABLE
    req,            \* the handler in progress and its locals
    last,           \* the request that finished last, with its response
    lastAcquire,    \* what the latest get_redis_client/get_postgres_connection did
    postReturns,    \* counters returned by successful POST /counter, in order
    nreq, flips, extWrites

vars == <<redisUp, api_counter, pgUp, tableExists, users, redis_client,
          postgres_conn, connSerial, openConns, started, initFailed, req, last,
          lastAcquire, postReturns, nreq, flips, extWrites>>

storeVars == <<redisUp, api_counter, pgUp, tableExists, users>>

\* ------------------------------------------------------- integer strings
Digits == <<"0", "1", "2", "3", "4", "5", "6", "7", "8", "9">>

IsDigit(c) == \E i \in 1..10 : Digits[i] = c

DigitVal(c) == (CHOOSE i \in 1..10 : Digits[i] = c) - 1

\* A string both Redis INCR and Python int() read as a non-negative integer.
IsIntStr(s) == Len(s) > 0 /\ \A i \in 1..Len(s) : IsDigit(s[i])

RECURSIVE ParseInt(_)
ParseInt(s) ==
    IF Len(s) = 0 THEN 0
    ELSE 10 * ParseInt(SubSeq(s, 1, Len(s) - 1)) + DigitVal(s[Len(s)])

RECURSIVE FormatInt(_)
FormatInt(n) ==
    IF n < 10 THEN <<Digits[n + 1]>>
    ELSE FormatInt(n \div 10) \o <<Digits[(n % 10) + 1]>>

AbsentKey == [present |-> FALSE, val |-> <<>>]

StoredKey(s) == [present |-> TRUE, val |-> s]

\* redis GET then `0 if None else int(str(value))`: [ok, value]; ok = FALSE is
\* the ValueError of int().
ReadCounter(key) ==
    IF ~key.present THEN [ok |-> TRUE, value |-> 0]
    ELSE IF IsIntStr(key.val) THEN [ok |-> TRUE, value |-> ParseInt(key.val)]
    ELSE [ok |-> FALSE, value |-> 0]

\* Mutant of RedisIncr: the key is created at 0 instead of 1.
RedisIncrFromZero(key) ==
    IF ~key.present THEN [ok |-> TRUE, key |-> StoredKey(FormatInt(0)), value |-> 0]
    ELSE IF IsIntStr(key.val)
         THEN [ok |-> TRUE, key |-> StoredKey(FormatInt(ParseInt(key.val) + 1)),
               value |-> ParseInt(key.val) + 1]
    ELSE [ok |-> FALSE, key |-> key, value |-> 0]

\* redis INCR, executed atomically by the store: an absent key counts as 0, a
\* value that is no integer is an error and is left as it is.
RedisIncr(key) ==
    IF ~key.present THEN [ok |-> TRUE, key |-> StoredKey(FormatInt(1)), value |-> 1]
    ELSE IF IsIntStr(key.val)
         THEN [ok |-> TRUE, key |-> StoredKey(FormatInt(ParseInt(key.val) + 1)),
               value |-> ParseInt(key.val) + 1]
    ELSE [ok |-> FALSE, key |-> key, value |-> 0]

\* Mutant of MetricsCounter: the local starts at 1 instead of 0.
MetricsCounterFromOne(client, up, key) ==
    IF client = None \/ ~up \/ ~ReadCounter(key).ok THEN 1
    ELSE ReadCounter(key).value

\* get_metrics: counter = 0; the read and the conversion sit in a bare
\* try/except that passes.
MetricsCounter(client, up, key) ==
    IF client = None \/ ~up \/ ~ReadCounter(key).ok THEN 0
    ELSE ReadCounter(key).value

\* The text get_metrics returns, by metric line: <<name, rendered value>>.
MetricsBody(counter) == << <<"api_counter_total", FormatInt(counter)>>,
                           <<"api_health", <<"1">>>> >>

\* ------------------------------------------------------ connection manager
NoConn == [id |-> None, closed |-> FALSE, broken |-> FALSE, txn |-> "idle",
           pending |-> ""]

NewConn(i) == [id |-> i, closed |-> FALSE, broken |-> FALSE, txn |-> "idle",
               pending |-> ""]

NoAcquire == [store |-> "", had |-> FALSE, probeOK |-> FALSE, attempts |-> 0,
              before |-> None, after |-> None, ret |-> None, up |-> FALSE,
              raised |-> FALSE, usable |-> FALSE]

\* Mutant of GetRedisClient: a failed ping drops the memoized client.
GetRedisClientDropping(client, up) ==
    LET had == client # None
        c   == IF had THEN client ELSE 1
    IN  [client |-> IF up THEN c ELSE None,
         ret |-> IF up THEN c ELSE None,
         had |-> had, probeOK |-> had /\ up,
         attempts |-> IF had THEN 0 ELSE 1]

\* get_redis_client: redis.Redis(...) only builds the client object (it opens
\* no socket and does not fail); ping() raises iff the store is unreachable,
\* and the except clause returns None, leaving the global as it is.
GetRedisClient(client, up) ==
    LET had == client # None
        c   == IF had THEN client ELSE 1
    IN  [client |-> c,
         ret |-> IF up THEN c ELSE None,
         had |-> had, probeOK |-> had /\ up,
         attempts |-> IF had THEN 0 ELSE 1]

\* Mutant of GetPostgresConnection: connects anew on every call.
GetPostgresConnectionAlways(conn, up, serial) ==
    LET had == conn.id # None
    IN  IF up
        THEN [conn |-> NewConn(serial + 1), ret |-> serial + 1, had |-> had,
              probeOK |-> had /\ ~conn.closed, attempts |-> 1, serial |-> serial + 1]
        ELSE [conn |-> conn, ret |-> None, had |-> had,
              probeOK |-> had /\ ~conn.closed, attempts |-> 1, serial |-> serial]

\* get_postgres_connection: connect only if the global is None or .closed;
\* psycopg2.connect raises iff the store is unreachable, the assignment then
\* does not happen and the except clause returns None.
GetPostgresConnection(conn, up, serial) ==
    LET had == conn.id # None
    IN  IF ~had \/ conn.closed
        THEN IF up
             THEN [conn |-> NewConn(serial + 1), ret |-> serial + 1, had |-> had,
                   probeOK |-> FALSE, attempts |-> 1, serial |-> serial + 1]
             ELSE [conn |-> conn, ret |-> None, had |-> had,
                   probeOK |-> FALSE, attempts |-> 1, serial |-> serial]
        ELSE [conn |-> conn, ret |-> conn.id, had |-> had,
              probeOK |-> TRUE, attempts |-> 0, serial |-> serial]

\* The connection objects whose .closed is 0 after the global became c.
OpenAfter(c) == (openConns \ (IF c.closed THEN {c.id} ELSE {}))
                \cup (IF c.id # None /\ ~c.closed THEN {c.id} ELSE {})

\* A statement, commit or rollback can run on the connection.
Healthy(c) == c.id # None /\ ~c.closed /\ ~c.broken

\* The record of a call to get_redis_client.
RedisAcquired(g) ==
    [store |-> "redis", had |-> g.had, probeOK |-> g.probeOK,
     attempts |-> g.attempts, before |-> redis_client, after |-> g.client,
     ret |-> g.ret, up |-> redisUp, raised |-> FALSE,
     usable |-> g.ret # None /\ redisUp]

\* The record of a call to get_postgres_connection.
PostgresAcquired(g) ==
    [store |-> "postgres", had |-> g.had, probeOK |-> g.probeOK,
     attempts |-> g.attempts, before |-> postgres_conn.id, after |-> g.conn.id,
     ret |-> g.ret, up |-> pgUp, raised |-> FALSE,
     usable |-> g.ret # None /\ pgUp /\ Healthy(g.conn)]

\* ---------------------------------------------------------------- requests
Idle == [kind |-> "none", pc |-> "", email |-> "", client |-> None,
         conn |-> None, code |-> 0, rowsBefore |-> <<>>, existed |-> FALSE,
         pgUpAll |-> TRUE, pgDownAll |-> TRUE, redis_ok |-> FALSE,
         probeRedisUp |-> FALSE, probePgUp |-> FALSE, sqlError |-> FALSE,
         status |-> 0, uncaught |-> FALSE, redis |-> "", postgres |-> "",
         counter |-> 0, cacheOK |-> FALSE, key |-> AbsentKey, body |-> <<>>]

InSeq(e, s) == \E i \in 1..Len(s) : s[i] = e

\* A handler starts: the event loop is free and startup has run.
CanBegin == started /\ req.kind = "none" /\ nreq < MaxRequests

Begin(kind) == [Idle EXCEPT !.kind = kind, !.rowsBefore = users]

\* The store's state as one more store call of the request sees it.
SeenPg(r) == [r EXCEPT !.pgUpAll = r.pgUpAll /\ pgUp,
                       !.pgDownAll = r.pgDownAll /\ ~pgUp]

Init ==
    /\ redisUp \in BOOLEAN
    /\ api_counter = AbsentKey
    /\ pgUp \in BOOLEAN
    /\ tableExists \in BOOLEAN
    /\ users = <<>>
    /\ redis_client = None
    /\ postgres_conn = NoConn
    /\ connSerial = 0
    /\ openConns = {}
    /\ started = FALSE
    /\ initFailed = FALSE
    /\ req = Idle
    /\ last = Idle
    /\ lastAcquire = NoAcquire
    /\ postReturns = <<>>
    /\ nreq = 0
    /\ flips = 0
    /\ extWrites = 0

\* The request ends with response r; the event loop is free again.
Finish(r) == /\ last' = [r EXCEPT !.pc = ""]
             /\ req' = Idle

\* A store call on the connection raised: psycopg2 marks a lost link closed.
Raised(c) == [c EXCEPT !.closed = TRUE, !.pending = ""]

SetConn(c) == /\ postgres_conn' = c
              /\ openConns' = OpenAfter(c)

\* ------------------------------------------------------------- the stores
RedisDown ==
    /\ redisUp /\ flips < MaxFlips
    /\ redisUp' = FALSE
    /\ flips' = flips + 1
    /\ UNCHANGED <<api_counter, pgUp, tableExists, users, redis_client,
                   postgres_conn, connSerial, openConns, started, initFailed,
                   req, last, lastAcquire, postReturns, nreq, extWrites>>

RedisRecover ==
    /\ ~redisUp /\ flips < MaxFlips
    /\ redisUp' = TRUE
    /\ flips' = flips + 1
    /\ UNCHANGED <<api_counter, pgUp, tableExists, users, redis_client,
                   postgres_conn, connSerial, openConns, started, initFailed,
                   req, last, lastAcquire, postReturns, nreq, extWrites>>

\* The relational store goes away: the server side of an open connection and
\* its uncommitted work are gone, while the client object still has closed = 0.
PgDown ==
    /\ pgUp /\ flips < MaxFlips
    /\ pgUp' = FALSE
    /\ flips' = flips + 1
    /\ postgres_conn' = IF postgres_conn.id # None /\ ~postgres_conn.closed
                        THEN [postgres_conn EXCEPT !.broken = TRUE, !.pending = ""]
                        ELSE postgres_conn
    /\ UNCHANGED <<redisUp, api_counter, tableExists, users, redis_client,
                   connSerial, openConns, started, initFailed, req, last,
                   lastAcquire, postReturns, nreq, extWrites>>

PgRecover ==
    /\ ~pgUp /\ flips < MaxFlips
    /\ pgUp' = TRUE
    /\ flips' = flips + 1
    /\ UNCHANGED <<redisUp, api_counter, tableExists, users, redis_client,
                   postgres_conn, connSerial, openConns, started, initFailed,
                   req, last, lastAcquire, postReturns, nreq, extWrites>>

\* Another client of the cache sets the key, which this process does not own.
ExternalSet ==
    /\ redisUp /\ extWrites < MaxExtWrites
    /\ \E v \in ExternalValues : api_counter' = StoredKey(v)
    /\ extWrites' = extWrites + 1
    /\ UNCHANGED <<redisUp, pgUp, tableExists, users, redis_client,
                   postgres_conn, connSerial, openConns, started, initFailed,
                   req, last, lastAcquire, postReturns, nreq, flips>>

\* ---------------------------------------------------------------- startup
startup_Acquire ==
    /\ ~started /\ req.kind = "none"
    /\ LET g == GetPostgresConnection(postgres_conn, pgUp, connSerial)
       IN  /\ SetConn(g.conn)
           /\ connSerial' = g.serial
           /\ lastAcquire' = PostgresAcquired(g)
           /\ IF g.ret = None
              THEN /\ started' = TRUE
                   /\ initFailed' = TRUE
                   /\ req' = Idle
              ELSE /\ req' = [Idle EXCEPT !.kind = "startup", !.pc = "execute",
                                          !.conn = g.ret]
                   /\ UNCHANGED <<started, initFailed>>
    /\ UNCHANGED <<storeVars, redis_client, last, postReturns, nreq, flips,
                   extWrites>>

\* CREATE TABLE IF NOT EXISTS; an exception is logged and startup goes on.
startup_Execute ==
    /\ req.kind = "startup" /\ req.pc = "execute"
    /\ IF Healthy(postgres_conn)
       THEN /\ SetConn([postgres_conn EXCEPT
                           !.txn = "intrans",
                           !.pending = IF tableExists THEN "" ELSE "users"])
            /\ req' = [req EXCEPT !.pc = "commit"]
            /\ UNCHANGED <<started, initFailed, last>>
       ELSE /\ SetConn(Raised(postgres_conn))
            /\ started' = TRUE
            /\ initFailed' = TRUE
            /\ Finish([req EXCEPT !.sqlError = TRUE])
    /\ UNCHANGED <<storeVars, redis_client, connSerial, lastAcquire,
                   postReturns, nreq, flips, extWrites>>

startup_Commit ==
    /\ req.kind = "startup" /\ req.pc = "commit"
    /\ IF Healthy(postgres_conn)
       THEN /\ SetConn([postgres_conn EXCEPT !.txn = "idle", !.pending = ""])
            /\ tableExists' = TRUE
            /\ started' = TRUE
            /\ Finish(req)
            /\ UNCHANGED initFailed
       ELSE /\ SetConn(Raised(postgres_conn))
            /\ started' = TRUE
            /\ initFailed' = TRUE
            /\ Finish([req EXCEPT !.sqlError = TRUE])
            /\ UNCHANGED tableExists
    /\ UNCHANGED <<redisUp, api_counter, pgUp, users, redis_client, connSerial,
                   lastAcquire, postReturns, nreq, flips, extWrites>>

\* ------------------------------------------------------------- GET /ready
ready_Redis ==
    /\ CanBegin
    /\ LET g == GetRedisClient(redis_client, redisUp)
       IN  /\ redis_client' = g.client
           /\ lastAcquire' = RedisAcquired(g)
           /\ req' = [Begin("ready") EXCEPT !.pc = "postgres",
                                            !.redis_ok = g.ret # None,
                                            !.probeRedisUp = redisUp]
    /\ nreq' = nreq + 1
    /\ UNCHANGED <<storeVars, postgres_conn, connSerial, openConns, started,
                   initFailed, last, postReturns, flips, extWrites>>

ready_Postgres ==
    /\ req.kind = "ready" /\ req.pc = "postgres"
    /\ LET g  == GetPostgresConnection(postgres_conn, pgUp, connSerial)
           ok == g.ret # None
       IN  /\ SetConn(g.conn)
           /\ connSerial' = g.serial
           /\ lastAcquire' = PostgresAcquired(g)
           /\ Finish([req EXCEPT
                        !.probePgUp = pgUp,
                        !.status = IF req.redis_ok /\ ok THEN 200 ELSE 503,
                        !.redis = IF req.redis_ok THEN "ok" ELSE "error",
                        !.postgres = IF ok THEN "ok" ELSE "error"])
    /\ UNCHANGED <<storeVars, redis_client, started, initFailed, postReturns,
                   nreq, flips, extWrites>>

\* ----------------------------------------------------------- GET /counter
get_counter_Acquire ==
    /\ CanBegin
    /\ LET g == GetRedisClient(redis_client, redisUp)
           r == [Begin("get_counter") EXCEPT !.client = g.ret]
       IN  /\ redis_client' = g.client
           /\ lastAcquire' = RedisAcquired(g)
           /\ IF g.ret = None
              THEN Finish([r EXCEPT !.status = 503])
              ELSE /\ req' = [r EXCEPT !.pc = "get"]
                   /\ UNCHANGED last
    /\ nreq' = nreq + 1
    /\ UNCHANGED <<storeVars, postgres_conn, connSerial, openConns, started,
                   initFailed, postReturns, flips, extWrites>>

get_counter_Get ==
    /\ req.kind = "get_counter" /\ req.pc = "get"
    /\ LET v == ReadCounter(api_counter)
       IN  IF redisUp /\ v.ok
           THEN Finish([req EXCEPT !.status = 200, !.counter = v.value,
                                   !.key = api_counter])
           ELSE Finish([req EXCEPT !.status = 500, !.key = api_counter])
    /\ UNCHANGED <<storeVars, redis_client, postgres_conn, connSerial,
                   openConns, started, initFailed, lastAcquire, postReturns,
                   nreq, flips, extWrites>>

\* ---------------------------------------------------------- POST /counter
increment_counter_Acquire ==
    /\ CanBegin
    /\ LET g == GetRedisClient(redis_client, redisUp)
           r == [Begin("increment_counter") EXCEPT !.client = g.ret]
       IN  /\ redis_client' = g.client
           /\ lastAcquire' = RedisAcquired(g)
           /\ IF g.ret = None
              THEN Finish([r EXCEPT !.status = 503])
              ELSE /\ req' = [r EXCEPT !.pc = "incr"]
                   /\ UNCHANGED last
    /\ nreq' = nreq + 1
    /\ UNCHANGED <<storeVars, postgres_conn, connSerial, openConns, started,
                   initFailed, postReturns, flips, extWrites>>

increment_counter_Incr ==
    /\ req.kind = "increment_counter" /\ req.pc = "incr"
    /\ LET i == RedisIncr(api_counter)
       IN  IF redisUp /\ i.ok
           THEN /\ api_counter' = i.key
                /\ postReturns' = Append(postReturns, i.value)
                /\ Finish([req EXCEPT !.status = 200, !.counter = i.value,
                                      !.key = i.key])
           ELSE /\ Finish([req EXCEPT !.status = 500, !.key = api_counter])
                /\ UNCHANGED <<api_counter, postReturns>>
    /\ UNCHANGED <<redisUp, pgUp, tableExists, users, redis_client,
                   postgres_conn, connSerial, openConns, started, initFailed,
                   lastAcquire, nreq, flips, extWrites>>

\* ------------------------------------------------------------ POST /users
create_user_Acquire ==
    /\ CanBegin
    /\ \E e \in Emails :
         LET g == GetPostgresConnection(postgres_conn, pgUp, connSerial)
             r == SeenPg([Begin("create_user") EXCEPT
                            !.email = e, !.conn = g.ret,
                            !.existed = InSeq(e, users)])
         IN  /\ SetConn(g.conn)
             /\ connSerial' = g.serial
             /\ lastAcquire' = PostgresAcquired(g)
             /\ IF g.ret = None
                THEN Finish([r EXCEPT !.status = 503])
                ELSE /\ req' = [r EXCEPT !.pc = "insert"]
                     /\ UNCHANGED last
    /\ nreq' = nreq + 1
    /\ UNCHANGED <<storeVars, redis_client, started, initFailed, postReturns,
                   flips, extWrites>>

\* cursor.execute(INSERT ... RETURNING *): each exception leads to an except
\* clause that calls conn.rollback() and then raises the HTTPException.
create_user_Insert ==
    /\ req.kind = "create_user" /\ req.pc = "insert"
    /\ LET c == postgres_conn
           r == SeenPg(req)
           fail(code) == [r EXCEPT !.pc = "rollback", !.code = code,
                                   !.sqlError = TRUE]
       IN  IF ~Healthy(c)
           THEN /\ SetConn(Raised(c))
                /\ req' = fail(500)
           ELSE IF c.txn = "aborted"
           THEN /\ SetConn(c)
                /\ req' = fail(500)
           ELSE IF ~tableExists
           THEN /\ SetConn([c EXCEPT !.txn = "aborted"])
                /\ req' = fail(500)
           ELSE IF InSeq(req.email, users)
           THEN /\ SetConn([c EXCEPT !.txn = "aborted"])
                /\ req' = fail(400)
           ELSE /\ SetConn([c EXCEPT !.txn = "intrans", !.pending = req.email])
                /\ req' = [r EXCEPT !.pc = "commit"]
    /\ UNCHANGED <<storeVars, redis_client, connSerial, started, initFailed,
                   last, lastAcquire, postReturns, nreq, flips, extWrites>>

create_user_Commit ==
    /\ req.kind = "create_user" /\ req.pc = "commit"
    /\ LET c == postgres_conn
           r == SeenPg(req)
       IN  IF Healthy(c)
           THEN /\ SetConn([c EXCEPT !.txn = "idle", !.pending = ""])
                /\ users' = Append(users, c.pending)
                /\ Finish([r EXCEPT !.status = 200])
           ELSE /\ SetConn(Raised(c))
                /\ req' = [r EXCEPT !.pc = "rollback", !.code = 500,
                                    !.sqlError = TRUE]
                /\ UNCHANGED <<users, last>>
    /\ UNCHANGED <<redisUp, api_counter, pgUp, tableExists, redis_client,
                   connSerial, started, initFailed, lastAcquire, postReturns,
                   nreq, flips, extWrites>>

\* conn.rollback() inside the except clauses: on a closed or lost connection
\* it raises itself, and nothing catches that.
create_user_Rollback ==
    /\ req.kind = "create_user" /\ req.pc = "rollback"
    /\ LET c == postgres_conn
           r == SeenPg(req)
       IN  IF Healthy(c)
           THEN /\ SetConn([c EXCEPT !.txn = "idle", !.pending = ""])
                /\ Finish([r EXCEPT !.status = r.code])
           ELSE /\ SetConn(Raised(c))
                /\ Finish([r EXCEPT !.status = 500, !.uncaught = TRUE])
    /\ UNCHANGED <<storeVars, redis_client, connSerial, started, initFailed,
                   lastAcquire, postReturns, nreq, flips, extWrites>>

\* ------------------------------------------------------------- GET /users
list_users_Acquire ==
    /\ CanBegin
    /\ LET g == GetPostgresConnection(postgres_conn, pgUp, connSerial)
           r == SeenPg([Begin("list_users") EXCEPT !.conn = g.ret])
       IN  /\ SetConn(g.conn)
           /\ connSerial' = g.serial
           /\ lastAcquire' = PostgresAcquired(g)
           /\ IF g.ret = None
              THEN Finish([r EXCEPT !.status = 503])
              ELSE /\ req' = [r EXCEPT !.pc = "select"]
                   /\ UNCHANGED last
    /\ nreq' = nreq + 1
    /\ UNCHANGED <<storeVars, redis_client, started, initFailed, postReturns,
                   flips, extWrites>>

\* cursor.execute(SELECT ...): the except clause logs and raises the 500; it
\* calls neither rollback nor commit, and neither does the success path.
list_users_Select ==
    /\ req.kind = "list_users" /\ req.pc = "select"
    /\ LET c == postgres_conn
           r == SeenPg(req)
       IN  IF ~Healthy(c)
           THEN /\ SetConn(Raised(c))
                /\ Finish([r EXCEPT !.status = 500, !.sqlError = TRUE])
           ELSE IF c.txn = "aborted"
           THEN /\ SetConn(c)
                /\ Finish([r EXCEPT !.status = 500, !.sqlError = TRUE])
           ELSE IF ~tableExists
           THEN /\ SetConn([c EXCEPT !.txn = "aborted"])
                /\ Finish([r EXCEPT !.status = 500, !.sqlError = TRUE])
           ELSE /\ SetConn([c EXCEPT !.txn = "intrans"])
                /\ Finish([r EXCEPT !.status = 200])
    /\ UNCHANGED <<storeVars, redis_client, connSerial, started, initFailed,
                   lastAcquire, postReturns, nreq, flips, extWrites>>

\* ----------------------------------------------------------- GET /metrics
get_metrics_Acquire ==
    /\ CanBegin
    /\ LET g == GetRedisClient(redis_client, redisUp)
           r == [Begin("get_metrics") EXCEPT !.client = g.ret]
       IN  /\ redis_client' = g.client
           /\ lastAcquire' = RedisAcquired(g)
           /\ IF g.ret = None
              THEN Finish([r EXCEPT
                             !.status = 200, !.key = api_counter,
                             !.counter = MetricsCounter(None, redisUp, api_counter),
                             !.body = MetricsBody(
                                 MetricsCounter(None, redisUp, api_counter))])
              ELSE /\ req' = [r EXCEPT !.pc = "get"]
                   /\ UNCHANGED last
    /\ nreq' = nreq + 1
    /\ UNCHANGED <<storeVars, postgres_conn, connSerial, openConns, started,
                   initFailed, postReturns, flips, extWrites>>

get_metrics_Get ==
    /\ req.kind = "get_metrics" /\ req.pc = "get"
    /\ Finish([req EXCEPT !.status = 200, !.key = api_counter,
                          !.cacheOK = redisUp,
                          !.counter = MetricsCounter(req.client, redisUp,
                                                     api_counter),
                          !.body = MetricsBody(
                              MetricsCounter(req.client, redisUp, api_counter))])
    /\ UNCHANGED <<storeVars, redis_client, postgres_conn, connSerial,
                   openConns, started, initFailed, lastAcquire, postReturns,
                   nreq, flips, extWrites>>

Next ==
    \/ RedisDown \/ RedisRecover \/ PgDown \/ PgRecover \/ ExternalSet
    \/ startup_Acquire \/ startup_Execute \/ startup_Commit
    \/ ready_Redis \/ ready_Postgres
    \/ get_counter_Acquire \/ get_counter_Get
    \/ increment_counter_Acquire \/ increment_counter_Incr
    \/ create_user_Acquire \/ create_user_Insert \/ create_user_Commit
    \/ create_user_Rollback
    \/ list_users_Acquire \/ list_users_Select
    \/ get_metrics_Acquire \/ get_metrics_Get

Spec == Init /\ [][Next]_vars

\* ------------------------------------------------------------------ claims

\* C1: GET /ready answers 503 exactly when one of the two stores was
\* unavailable when the handler probed it, 200 otherwise, and each field of the
\* body is "ok" for an available store and "error" for an unavailable one.
ReadyReportsStores ==
    last.kind = "ready" =>
        /\ last.status \in {200, 503}
        /\ (last.status = 503) <=> (~last.probeRedisUp \/ ~last.probePgUp)
        /\ last.redis = (IF last.probeRedisUp THEN "ok" ELSE "error")
        /\ last.postgres = (IF last.probePgUp THEN "ok" ELSE "error")

\* C2: when no other client has written the key, the k-th successful POST
\* /counter returned k, the key holds the number of successful POSTs, and a GET
\* /counter that succeeds returns that number; the value a successful POST
\* returns is the value the key holds after it.
CounterCountsPosts ==
    /\ extWrites = 0 =>
          /\ \A i \in 1..Len(postReturns) : postReturns[i] = i
          /\ ReadCounter(api_counter) = [ok |-> TRUE, value |-> Len(postReturns)]
          /\ (last.kind = "get_counter" /\ last.status = 200
                => last.counter = Len(postReturns))
    /\ (last.kind = "increment_counter" /\ last.status = 200
          => /\ IsIntStr(last.key.val)
             /\ ParseInt(last.key.val) = last.counter)

\* Two POST /counter from an absent key, then a GET /counter returning 2.
CounterWitness ==
    /\ extWrites = 0
    /\ postReturns = <<1, 2>>
    /\ last.kind = "get_counter" /\ last.status = 200 /\ last.counter = 2

\* C3: a POST /users whose email is already in the table, with the relational
\* store up at every step of the request, answers 400 and leaves the rows of
\* the table as they were.
DuplicateEmailIs400 ==
    (last.kind = "create_user" /\ last.existed /\ last.pgUpAll) =>
        /\ last.status = 400
        /\ ~last.uncaught
        /\ users = last.rowsBefore

\* C4: a call of get_redis_client or get_postgres_connection raises nothing,
\* and what it returns is None or a handle the next store call can use.
AcquireUsableOrNone ==
    lastAcquire.store # "" =>
        /\ ~lastAcquire.raised
        /\ (lastAcquire.ret # None => lastAcquire.usable)

NoUncaughtException ==
    /\ ~last.uncaught
    /\ (last.kind \notin {"none", "startup"}
          => last.status \in {200, 201, 400, 500, 503})

\* C7: GET /metrics answers 200 with the lines api_counter_total <int> and
\* api_health 1; the integer is the stored counter when the cache answered and
\* the key is absent (0) or an integer, and 0 when the cache was unavailable,
\* the read failed or the key holds a non-integer.
MetricsAlways200 ==
    last.kind = "get_metrics" =>
        /\ last.status = 200
        /\ ~last.uncaught
        /\ Len(last.body) = 2
        /\ last.body[1][1] = "api_counter_total"
        /\ IsIntStr(last.body[1][2])
        /\ ParseInt(last.body[1][2]) = last.counter
        /\ last.body[2] = <<"api_health", <<"1">>>>
        /\ last.counter =
              (IF last.client # None /\ last.cacheOK /\ last.key.present
                  /\ IsIntStr(last.key.val)
               THEN ParseInt(last.key.val)
               ELSE 0)

\* GET /metrics read a key holding a non-integer from a reachable cache.
MetricsWitness ==
    /\ last.kind = "get_metrics"
    /\ last.client # None /\ last.cacheOK
    /\ last.key.present /\ ~IsIntStr(last.key.val)
    /\ last.counter = 0

\* C8: between requests, after an operation whose statement raised, the open
\* memoized connection is in no transaction (the error was rolled back).
ErrorsAreRolledBack ==
    (req.kind = "none" /\ last.sqlError /\ postgres_conn.id # None
       /\ ~postgres_conn.closed)
        => postgres_conn.txn = "idle"

\* C9: after a failed table initialization, POST /users and GET /users answer
\* 503 while the relational store is down, and succeed (no 5xx) when it is up
\* at every step of the request.
StartupFailureRecovers ==
    (initFailed /\ last.kind \in {"create_user", "list_users"}) =>
        /\ (last.pgDownAll => last.status = 503)
        /\ (last.pgUpAll => last.status \in {200, 201, 400} /\ ~last.uncaught)

\* C10: at most one connection object is open and it is the memoized one, the
\* handle a running request holds is the memoized one, an acquire call returns
\* the handle it leaves memoized, and a memoized handle that passes its probe
\* is returned as it is, with no reconstruction.
OneHandlePerStore ==
    /\ Cardinality(openConns) <= 1
    /\ openConns \subseteq {postgres_conn.id}
    /\ (req.conn # None => req.conn = postgres_conn.id)
    /\ (req.client # None => req.client = redis_client)
    /\ (lastAcquire.ret # None => lastAcquire.ret = lastAcquire.after)
    /\ (lastAcquire.had /\ lastAcquire.probeOK
          => /\ lastAcquire.after = lastAcquire.before
             /\ lastAcquire.ret = lastAcquire.before
             /\ lastAcquire.attempts = 0)

\* The second connection object, made by a reconnect, is reused by a later call.
ReuseWitness ==
    /\ lastAcquire.store = "postgres"
    /\ lastAcquire.had /\ lastAcquire.probeOK
    /\ lastAcquire.ret = 2

====
